---- MODULE Spec2Model ----
(***************************************************************************)
(* Model of the report engine of the MSF Pal alliance report generator     *)
(* (src/main.go): main's grouping of the flat character list by player,    *)
(* and generateAverageTeamPowerByPlayerReport, which aggregates team power *)
(* per player, builds the cell matrix, sorts it with                       *)
(* sort.Sort(ByAverageTotalTeamPower) and formats the write range.         *)
(*                                                                         *)
(* Go strings are sequences of one-character strings, so that              *)
(* strings.ToLower, sort.Strings, strconv.Itoa and fmt.Sprintf are         *)
(* computed and not assumed.  A cell of the [][]interface{} matrix is a    *)
(* record [kind, n, s]: kind is the dynamic type ("nil", "int",            *)
(* "string"), n the int and s the string it holds.                         *)
(***************************************************************************)
EXTENDS Integers, Sequences, FiniteSets, TLC

VARIABLES
    msfPlayerCharacters,  \* main: the decoded flat list of characters
    teams,                \* the teams argument
    sheetName,            \* the sheetName argument
    goSort,               \* which sort.Sort the build's Go toolchain links
    pc,                   \* position in main / the report function
    playerCharactersMap,  \* main: player -> that player's characters
    playerTeamsMap,       \* player -> one total per team aggregated so far
    teamIndex,            \* teams already ranged over by the outer loop
    cellValues,           \* the cell matrix
    playerKeys,           \* the sorted player keys
    writeRange            \* the returned range string

vars == <<msfPlayerCharacters, teams, sheetName, goSort, pc, playerCharactersMap,
          playerTeamsMap, teamIndex, cellValues, playerKeys, writeRange>>

----------------------------------------------------------------------------
(* Bounds of the model.                                                    *)

\* Spec: longest flat character list.
MaxRecords == 2
\* Spec: longest team list.
MaxTeams == 2
\* SpecRank: most players (eight rows with the header: the first length at
\* which the gap-6 pass of the older sort.Sort swaps two owner rows).
MaxRankOwners == 7
\* SpecRange: most players (the row count reaches two digits).
MaxRangeOwners == 10
\* A map of at most this many keys is ranged over in every order.
MaxPermuted == 3

----------------------------------------------------------------------------
(* Strings.                                                                *)

Lower == <<"a", "b", "c", "d", "e", "f", "g", "h", "i", "j", "k", "l", "m",
           "n", "o", "p", "q", "r", "s", "t", "u", "v", "w", "x", "y", "z">>

Upper == <<"A", "B", "C", "D", "E", "F", "G", "H", "I", "J", "K", "L", "M",
           "N", "O", "P", "Q", "R", "S", "T", "U", "V", "W", "X", "Y", "Z">>

Digits == <<"0", "1", "2", "3", "4", "5", "6", "7", "8", "9">>

Range(s) == {s[i] : i \in DOMAIN s}

IndexOf(s, c) == CHOOSE i \in DOMAIN s : s[i] = c

\* The byte of an ASCII character (letters, digits, '-').
ByteOf(c) ==
    IF c \in Range(Upper) THEN 64 + IndexOf(Upper, c)
    ELSE IF c \in Range(Lower) THEN 96 + IndexOf(Lower, c)
    ELSE IF c \in Range(Digits) THEN 47 + IndexOf(Digits, c)
    ELSE 45

\* strings.ToLower on ASCII: upper-case letters are mapped, the rest kept.
ToLowerChar(c) == IF c \in Range(Upper) THEN Lower[IndexOf(Upper, c)] ELSE c

ToLower(s) == [i \in DOMAIN s |-> ToLowerChar(s[i])]

\* Go's < on strings: bytewise lexicographic, a proper prefix is smaller.
RECURSIVE StringLess(_, _)
StringLess(x, y) ==
    IF y = <<>> THEN FALSE
    ELSE IF x = <<>> THEN TRUE
    ELSE IF ByteOf(Head(x)) # ByteOf(Head(y)) THEN ByteOf(Head(x)) < ByteOf(Head(y))
    ELSE StringLess(Tail(x), Tail(y))

\* strconv.Itoa of a non-negative int.
RECURSIVE Itoa(_)
Itoa(n) ==
    IF n < 10 THEN <<Digits[n + 1]>>
    ELSE Itoa(n \div 10) \o <<Digits[(n % 10) + 1]>>

\* Go's integer division truncates toward zero.
GoDiv(a, b) == IF a >= 0 THEN a \div b ELSE -((-a) \div b)

----------------------------------------------------------------------------
(* Cells of the [][]interface{} matrix.                                    *)

NilCell == [kind |-> "nil", n |-> 0, s |-> <<>>]

IntCell(n) == [kind |-> "int", n |-> n, s |-> <<>>]

StrCell(s) == [kind |-> "string", n |-> 0, s |-> s]

----------------------------------------------------------------------------
(* sort.Sort of the Go standard library, for the lengths the model reaches *)
(* (at most 12 elements).  Up to Go 1.18 quickSort ends, for a slice of at *)
(* most 12 elements, with one ShellSort pass of gap 6 and an insertion     *)
(* sort; from Go 1.19 pdqsort runs the insertion sort alone.  The          *)
(* Dockerfile builds with golang:latest, so the build decides which.       *)

GoSorts == {"quickSort", "pdqsort"}

\* Less as it would be with the comparison reversed (ascending).
LessAscending(ai, aj) ==
    IF ai[Len(ai)].kind # "int" THEN TRUE
    ELSE IF aj[Len(aj)].kind # "int" THEN FALSE
    ELSE ai[Len(ai)].n < aj[Len(aj)].n

\* Less as it would be with the failed type assertions ignored: the value of
\* a failed .(int) is 0.
LessZeroValue(ai, aj) ==
    (IF ai[Len(ai)].kind = "int" THEN ai[Len(ai)].n ELSE 0)
        > (IF aj[Len(aj)].kind = "int" THEN aj[Len(aj)].n ELSE 0)

\* Less as it would be with the two fallback results exchanged.
LessFallbackSwapped(ai, aj) ==
    IF ai[Len(ai)].kind # "int" THEN FALSE
    ELSE IF aj[Len(aj)].kind # "int" THEN TRUE
    ELSE ai[Len(ai)].n > aj[Len(aj)].n

\* ByAverageTotalTeamPower.Less on the rows a[i] = ai and a[j] = aj.
Less(ai, aj) ==
    IF ai[Len(ai)].kind # "int" THEN TRUE
    ELSE IF aj[Len(aj)].kind # "int" THEN FALSE
    ELSE ai[Len(ai)].n > aj[Len(aj)].n

\* data.Less(i, j) of the sort.Interface being sorted, on the elements
\* x = data[i] and y = data[j].
InterfaceLess(type, x, y) ==
    IF type = "ByAverageTotalTeamPower" THEN Less(x, y) ELSE StringLess(x, y)

\* sort.Sort(data), data of the named sort.Interface type.
GoSort(data, type, impl) ==
    LET Swap(d, i, j) == [d EXCEPT ![i] = d[j], ![j] = d[i]]
        RECURSIVE Sift(_, _)
        Sift(d, j) ==
            IF j > 1 /\ InterfaceLess(type, d[j], d[j - 1]) THEN Sift(Swap(d, j, j - 1), j - 1) ELSE d
        RECURSIVE InsertionSort(_, _)
        InsertionSort(d, i) ==
            IF i > Len(d) THEN d ELSE InsertionSort(Sift(d, i), i + 1)
        RECURSIVE ShellPass(_, _)
        ShellPass(d, i) ==
            IF i > Len(d) THEN d
            ELSE ShellPass(IF InterfaceLess(type, d[i], d[i - 6]) THEN Swap(d, i, i - 6) ELSE d, i + 1)
    IN  IF Len(data) <= 1 THEN data
        ELSE IF impl = "quickSort" THEN InsertionSort(ShellPass(data, 7), 2)
        ELSE InsertionSort(data, 2)

\* The keys as they would be left without sort.Strings.
SortStringsOmitted(keys) == keys

\* sort.Strings(playerKeys).
SortStrings(keys) == GoSort(keys, "StringSlice", goSort)

----------------------------------------------------------------------------
(* Ranging over a Go map: the order is not specified.  A map of at most    *)
(* MaxPermuted keys is ranged over in every order; a larger one in every   *)
(* rotation of the order in which main first saw the players, forwards and *)
(* backwards.                                                              *)

RECURSIVE FirstSeen(_)
FirstSeen(records) ==
    IF records = <<>> THEN <<>>
    ELSE LET front == FirstSeen(SubSeq(records, 1, Len(records) - 1))
             player == records[Len(records)].Player
         IN  IF player \in Range(front) THEN front ELSE Append(front, player)

Perms(S) ==
    {f \in [1..Cardinality(S) -> S] : \A i, j \in DOMAIN f : i # j => f[i] # f[j]}

Rotation(b, k) == [i \in 1..Len(b) |-> b[((i + k - 1) % Len(b)) + 1]]

Reverse(b) == [i \in 1..Len(b) |-> b[Len(b) + 1 - i]]

MapOrders(keys) ==
    IF Cardinality(keys) <= MaxPermuted THEN Perms(keys)
    ELSE LET b == SelectSeq(FirstSeen(msfPlayerCharacters), LAMBDA p : p \in keys)
         IN  {Rotation(b, k) : k \in 0..(Len(b) - 1)}
                 \cup {Reverse(Rotation(b, k)) : k \in 0..(Len(b) - 1)}

----------------------------------------------------------------------------
(* main: group the flat list by player (first-seen order per player).      *)

RECURSIVE GroupByPlayer(_)
GroupByPlayer(records) ==
    IF records = <<>> THEN <<>>
    ELSE LET m == GroupByPlayer(SubSeq(records, 1, Len(records) - 1))
             character == records[Len(records)]
         IN  IF character.Player \in DOMAIN m
             THEN [m EXCEPT ![character.Player] = Append(@, character)]
             ELSE m @@ (character.Player :> <<character>>)

----------------------------------------------------------------------------
(* generateAverageTeamPowerByPlayerReport.                                 *)

sheetCellIndexToLetter == Upper

\* The test as it would be without strings.ToLower.
MatchesExactCase(character, teamCharacter) == character.ID = teamCharacter

\* The test as it would be with strings.HasPrefix in place of ==.
MatchesPrefix(character, teamCharacter) ==
    /\ Len(ToLower(character.ID)) <= Len(teamCharacter)
    /\ SubSeq(teamCharacter, 1, Len(character.ID)) = ToLower(character.ID)

\* The test of the innermost loop.
Matches(character, teamCharacter) == ToLower(character.ID) = teamCharacter

\* The inner loop over one player's characters, for one team character.
RECURSIVE CharacterPower(_, _)
CharacterPower(characters, teamCharacter) ==
    IF characters = <<>> THEN 0
    ELSE (IF Matches(Head(characters), teamCharacter) THEN Head(characters).Power ELSE 0)
         + CharacterPower(Tail(characters), teamCharacter)

\* teamTotalPower of one player for one team: the loop over team.Characters.
RECURSIVE TeamTotalPower(_, _)
TeamTotalPower(teamCharacters, characters) ==
    IF teamCharacters = <<>> THEN 0
    ELSE CharacterPower(characters, Head(teamCharacters))
         + TeamTotalPower(Tail(teamCharacters), characters)

\* One pass of the outer loop: range over playerCharactersMap in `order`.
RECURSIVE RangePlayers(_, _, _)
RangePlayers(m, team, order) ==
    IF order = <<>> THEN m
    ELSE LET player == Head(order)
             m0 == IF player \in DOMAIN m THEN m ELSE m @@ (player :> <<>>)
             teamTotalPower == TeamTotalPower(team.Characters, playerCharactersMap[player])
         IN  RangePlayers([m0 EXCEPT ![player] = Append(@, teamTotalPower)], team, Tail(order))

\* The header row as it would be without the "Average" label.
HeaderRowNoAverage(ts) ==
    <<StrCell(<<"P", "l", "a", "y", "e", "r">>)>>
        \o [k \in 1..Len(ts) |-> StrCell(ts[k].Label)]

\* The header row.
HeaderRow(ts) ==
    <<StrCell(<<"P", "l", "a", "y", "e", "r">>)>>
        \o [k \in 1..Len(ts) |-> StrCell(ts[k].Label)]
        \o <<StrCell(<<"A", "v", "e", "r", "a", "g", "e">>)>>

\* make([][]interface{}, nPlayers+1), each row make([]interface{}, nTeams+2),
\* with row 0 replaced by the header.
NewCellValues(nPlayers, ts) ==
    <<HeaderRow(ts)>> \o [i \in 1..nPlayers |-> [j \in 1..(Len(ts) + 2) |-> NilCell]]

RECURSIVE SumSeq(_)
SumSeq(s) == IF s = <<>> THEN 0 ELSE Head(s) + SumSeq(Tail(s))

\* The average as it would be rounded up.
AverageRoundedUp(totals) == GoDiv(SumSeq(totals) + Len(totals) - 1, Len(totals))

\* totalPower / len(playerTeamsMap[player])
AverageTotalTeamPower(totals) == GoDiv(SumSeq(totals), Len(totals))

\* The cell written at (playerIndex+1, columnIndex), both counted from 0.
CellAt(player, columnIndex, nColumns) ==
    IF columnIndex = 0 THEN StrCell(player)
    ELSE IF columnIndex = nColumns - 1
         THEN IntCell(AverageTotalTeamPower(playerTeamsMap[player]))
    ELSE IntCell(playerTeamsMap[player][columnIndex])

\* The two nested loops that fill the rows of the players.
FilledCells(cells, keys) ==
    [i \in 1..Len(cells) |->
        IF i = 1 \/ i - 1 > Len(keys) THEN cells[i]
        ELSE [j \in 1..Len(cells[i]) |->
                 IF j <= Len(cells[1]) THEN CellAt(keys[i - 1], j - 1, Len(cells[1]))
                 ELSE cells[i][j]]]

\* The range as it would be with the letter taken from the row count.
FormatRangeRowLetter(name, cells) ==
    name \o <<"!", "A", "1", ":">>
         \o <<sheetCellIndexToLetter[(Len(cells) - 1) + 1]>>
         \o Itoa(Len(cells))

\* fmt.Sprintf("%s!A1:%s%s", sheetName, letter, strconv.Itoa(len(cellValues)))
FormatRange(name, cells) ==
    name \o <<"!", "A", "1", ":">>
         \o <<sheetCellIndexToLetter[(Len(cells[1]) - 1) + 1]>>
         \o Itoa(Len(cells))

----------------------------------------------------------------------------
(* Inputs.                                                                 *)

thor == <<"t", "h", "o", "r">>

Thor == <<"T", "h", "o", "r">>

tho == <<"t", "h", "o">>

\* Character ids as the record source may send them.
ItemIDs == {thor, Thor, tho}

Powers == {1, 2}

\* Player names; "Bo" sorts before "al" in sort.Strings.
PlayerPool == {<<"a", "l">>, <<"B", "o">>}

OwnerNames ==
    << <<"a", "l">>, <<"b", "o">>, <<"c", "y">>, <<"d", "i">>, <<"e", "d">>,
       <<"f", "a", "y">>, <<"g", "u", "s">>, <<"h", "a", "l">>, <<"i", "d", "a">>,
       <<"j", "o">>, <<"k", "i", "m">>, <<"l", "e", "e">> >>

\* Team lists: one member; two members, one shared with the first team;
\* a member written with a capital; a member listed twice.
TeamPoolSeq ==
    << [Label |-> <<"A", "S", "G">>, Characters |-> <<thor>>],
       [Label |-> <<"X", "M">>, Characters |-> <<tho, thor>>],
       [Label |-> <<"C", "A", "P">>, Characters |-> <<Thor>>],
       [Label |-> <<"T", "W">>, Characters |-> <<thor, thor>>] >>

TeamPool == Range(TeamPoolSeq)

RecordPool == [Player : PlayerPool, ID : ItemIDs, Power : Powers]

SeqsUpTo(S, n) == UNION {[1..k -> S] : k \in 0..n}

\* Team lists of 1..n distinct teams.
TeamLists(n) ==
    {ts \in UNION {[1..k -> TeamPool] : k \in 1..n} :
        \A i, j \in DOMAIN ts : i # j => ts[i] # ts[j]}

Offense == <<"O", "f", "f", "e", "n", "s", "e">>

Flex == <<"F", "l", "e", "x">>

StartOfRun ==
    /\ pc = "main"
    /\ playerCharactersMap = <<>>
    /\ playerTeamsMap = <<>>
    /\ teamIndex = 0
    /\ cellValues = <<>>
    /\ playerKeys = <<>>
    /\ writeRange = <<>>

\* Any short character list against any short team list.
Init ==
    /\ msfPlayerCharacters \in SeqsUpTo(RecordPool, MaxRecords)
    /\ teams \in TeamLists(MaxTeams)
    /\ sheetName = Flex
    /\ goSort \in GoSorts
    /\ StartOfRun

\* Many players with one character each, listed last name first, for the
\* ranking.
InitRank ==
    /\ \E n \in 1..MaxRankOwners : \E power \in [1..n -> Powers] :
          msfPlayerCharacters =
              [i \in 1..n |->
                  [Player |-> OwnerNames[n + 1 - i], ID |-> Thor, Power |-> power[i]]]
    /\ teams \in {<<TeamPoolSeq[1]>>, <<TeamPoolSeq[1], TeamPoolSeq[3]>>}
    /\ sheetName = Flex
    /\ goSort \in GoSorts
    /\ StartOfRun

\* Every table shape the letter array can address, for the range string.
InitRange ==
    /\ \E n \in 1..MaxRangeOwners :
          msfPlayerCharacters =
              [i \in 1..n |-> [Player |-> OwnerNames[i], ID |-> thor, Power |-> 1]]
    /\ \E k \in 1..(Len(sheetCellIndexToLetter) - 2) :
          teams = [i \in 1..k |-> TeamPoolSeq[((i - 1) % Len(TeamPoolSeq)) + 1]]
    /\ sheetName \in {Offense, Flex}
    /\ goSort \in GoSorts
    /\ StartOfRun

----------------------------------------------------------------------------
(* Steps.                                                                  *)

\* main: build playerCharactersMap and call the report function.
BuildRoster ==
    /\ pc = "main"
    /\ playerCharactersMap' = GroupByPlayer(msfPlayerCharacters)
    /\ pc' = IF Len(teams) = 0 THEN "cells" ELSE "aggregate"
    /\ UNCHANGED <<msfPlayerCharacters, teams, sheetName, goSort, playerTeamsMap,
                   teamIndex, cellValues, playerKeys, writeRange>>

\* One pass of `for _, team := range teams`: the whole range over the map.
Aggregate ==
    /\ pc = "aggregate"
    /\ teamIndex < Len(teams)
    /\ \E order \in MapOrders(DOMAIN playerCharactersMap) :
          playerTeamsMap' = RangePlayers(playerTeamsMap, teams[teamIndex + 1], order)
    /\ teamIndex' = teamIndex + 1
    /\ pc' = IF teamIndex + 1 = Len(teams) THEN "cells" ELSE "aggregate"
    /\ UNCHANGED <<msfPlayerCharacters, teams, sheetName, goSort, playerCharactersMap,
                   cellValues, playerKeys, writeRange>>

\* Initialize cell values and set up the header row.
InitCells ==
    /\ pc = "cells"
    /\ cellValues' = NewCellValues(Cardinality(DOMAIN playerTeamsMap), teams)
    /\ pc' = "keys"
    /\ UNCHANGED <<msfPlayerCharacters, teams, sheetName, goSort, playerCharactersMap,
                   playerTeamsMap, teamIndex, playerKeys, writeRange>>

\* Collect the keys of playerTeamsMap in map order, then sort.Strings.
CollectKeys ==
    /\ pc = "keys"
    /\ \E order \in MapOrders(DOMAIN playerTeamsMap) : playerKeys' = SortStrings(order)
    /\ pc' = "fill"
    /\ UNCHANGED <<msfPlayerCharacters, teams, sheetName, goSort, playerCharactersMap,
                   playerTeamsMap, teamIndex, cellValues, writeRange>>

\* Fill the rows of the players.
FillCells ==
    /\ pc = "fill"
    /\ cellValues' = FilledCells(cellValues, playerKeys)
    /\ pc' = "sort"
    /\ UNCHANGED <<msfPlayerCharacters, teams, sheetName, goSort, playerCharactersMap,
                   playerTeamsMap, teamIndex, playerKeys, writeRange>>

\* sort.Sort(ByAverageTotalTeamPower(cellValues)); the sort is modelled for
\* the at most 12 rows the bounds allow.
SortRows ==
    /\ pc = "sort"
    /\ Len(cellValues) <= 12
    /\ cellValues' = GoSort(cellValues, "ByAverageTotalTeamPower", goSort)
    /\ pc' = "range"
    /\ UNCHANGED <<msfPlayerCharacters, teams, sheetName, goSort, playerCharactersMap,
                   playerTeamsMap, teamIndex, playerKeys, writeRange>>

\* Format the write range and return.
Return ==
    /\ pc = "range"
    /\ writeRange' = FormatRange(sheetName, cellValues)
    /\ pc' = "done"
    /\ UNCHANGED <<msfPlayerCharacters, teams, sheetName, goSort, playerCharactersMap,
                   playerTeamsMap, teamIndex, cellValues, playerKeys>>

Next ==
    \/ BuildRoster
    \/ Aggregate
    \/ InitCells
    \/ CollectKeys
    \/ FillCells
    \/ SortRows
    \/ Return

Spec == Init /\ [][Next]_vars

SpecRank == InitRank /\ [][Next]_vars

SpecRange == InitRange /\ [][Next]_vars

----------------------------------------------------------------------------
(* Vocabulary of the properties.                                           *)

Done == pc = "done"

Owners == {msfPlayerCharacters[i].Player : i \in DOMAIN msfPlayerCharacters}

\* The characters of one owner, in their order in the flat list.
RecordsOf(owner) == SelectSeq(msfPlayerCharacters, LAMBDA r : r.Player = owner)

\* The sum of Weight(r) over the records r of a sequence.
SumOver(records, Weight(_)) ==
    LET RECURSIVE Sum(_)
        Sum(rs) == IF rs = <<>> THEN 0 ELSE Weight(Head(rs)) + Sum(Tail(rs))
    IN  Sum(records)

HasRow(owner) == \E i \in 2..Len(cellValues) : cellValues[i][1] = StrCell(owner)

RowOf(owner) == cellValues[CHOOSE i \in 2..Len(cellValues) : cellValues[i][1] = StrCell(owner)]

\* The trailing cell of row i.
Trailing(i) == cellValues[i][Len(cellValues[i])]

EqualIgnoringCase(x, y) ==
    /\ Len(x) = Len(y)
    /\ \A i \in DOMAIN x : ToLowerChar(x[i]) = ToLowerChar(y[i])

\* How many entries of a member list equal the string m.
Entries(members, m) == Cardinality({e \in DOMAIN members : members[e] = m})

\* The average the report gives an owner, from the inputs.
AverageOf(owner) ==
    SumSeq([k \in 1..Len(teams) |-> TeamTotalPower(teams[k].Characters, RecordsOf(owner))])
        \div Len(teams)

----------------------------------------------------------------------------
(* C1, as stated: in the returned table, the cell of every owner under the *)
(* column of the k-th team (headed by that team's label) is the sum of     *)
(* power over the owner's records whose lower-cased itemID equals a        *)
(* memberID of the team, each such record counted once.                    *)
C1_SumOverMatchingRecords ==
    Done =>
        \A owner \in Owners : \A k \in 1..Len(teams) :
            /\ HasRow(owner)
            /\ cellValues[1][k + 1] = StrCell(teams[k].Label)
            /\ RowOf(owner)[k + 1] =
                   IntCell(SumOver(RecordsOf(owner),
                       LAMBDA r : IF ToLower(r.ID) \in Range(teams[k].Characters)
                                  THEN r.Power ELSE 0))

(* C1, amended: the cell is the sum of power over the owner's records,     *)
(* each record counted once per entry of the team's member list that its   *)
(* lower-cased itemID equals (0 when nothing matches; a record listed by   *)
(* two teams is counted in both columns).                                  *)
C1_SumPerMemberEntry ==
    Done =>
        \A owner \in Owners : \A k \in 1..Len(teams) :
            /\ HasRow(owner)
            /\ cellValues[1][k + 1] = StrCell(teams[k].Label)
            /\ RowOf(owner)[k + 1] =
                   IntCell(SumOver(RecordsOf(owner),
                       LAMBDA r : r.Power * Entries(teams[k].Characters, ToLower(r.ID))))

\* A finished report in which one owner's record counts in two teams'
\* columns, twice in the column of a team that lists its id twice, and
\* another owner has a 0.
C1_Witness ==
    /\ Done
    /\ Len(teams) = 2
    /\ \E k \in 1..2 : \E e1, e2 \in DOMAIN teams[k].Characters :
          e1 # e2 /\ teams[k].Characters[e1] = teams[k].Characters[e2]
    /\ \E owner \in Owners :
          /\ HasRow(owner)
          /\ RowOf(owner)[2].n > 0
          /\ RowOf(owner)[3].n > 0
          /\ RowOf(owner)[2].n # RowOf(owner)[3].n
    /\ \E owner \in Owners : HasRow(owner) /\ RowOf(owner)[2].n = 0

----------------------------------------------------------------------------
(* C2: the produced table is rectangular with teamCount + 2 columns in the *)
(* header and in every row, and ownerCount + 1 rows: the header and one    *)
(* row per distinct owner, an owner matching no team included, with a row  *)
(* of zeros.                                                               *)
C2_Rectangular ==
    Done =>
        /\ Len(cellValues) = Cardinality(Owners) + 1
        /\ \A i \in DOMAIN cellValues : Len(cellValues[i]) = Len(teams) + 2
        /\ \A owner \in Owners :
              /\ Cardinality({i \in DOMAIN cellValues : cellValues[i][1] = StrCell(owner)}) = 1
              /\ (\A i \in DOMAIN msfPlayerCharacters : \A k \in DOMAIN teams :
                      msfPlayerCharacters[i].Player = owner
                          => ToLower(msfPlayerCharacters[i].ID) \notin Range(teams[k].Characters))
                    => \A j \in 2..(Len(teams) + 2) : RowOf(owner)[j] = IntCell(0)

\* A finished report of two owners and two teams in which one owner matches
\* no team and the other does.
C2_Witness ==
    /\ Done
    /\ Len(teams) = 2
    /\ Cardinality(Owners) = 2
    /\ \E owner \in Owners : \A j \in 2..4 : RowOf(owner)[j] = IntCell(0)
    /\ \E owner \in Owners : RowOf(owner)[4].n > 0

----------------------------------------------------------------------------
(* C3: with at least one team and non-negative powers, the last cell of    *)
(* every owner row is floor(sum of the row's team totals / teamCount).     *)
C3_TruncatedAverage ==
    Done =>
        \A i \in 2..Len(cellValues) :
            LET row == cellValues[i]
                totals == [k \in 1..Len(teams) |-> row[k + 1].n]
            IN  /\ row[Len(row)].kind = "int"
                /\ row[Len(row)].n = SumSeq(totals) \div Len(teams)
                /\ row[Len(row)].n * Len(teams) <= SumSeq(totals)
                /\ SumSeq(totals) < (row[Len(row)].n + 1) * Len(teams)

\* A finished two-team report with a row whose totals have an odd sum, so
\* the division truncates.
C3_Witness ==
    /\ Done
    /\ Len(teams) = 2
    /\ \E i \in 2..Len(cellValues) :
          /\ (cellValues[i][2].n + cellValues[i][3].n) % 2 = 1
          /\ cellValues[i][2].n + cellValues[i][3].n >= 3

----------------------------------------------------------------------------
(* C6, as stated: a record is counted for a member entry of a team exactly *)
(* when its itemID and the memberID are equal ignoring case, whatever the  *)
(* casing of either.                                                       *)
C6_CaseInsensitiveBothSides ==
    Done =>
        \A owner \in Owners : \A k \in 1..Len(teams) :
            HasRow(owner) /\
            RowOf(owner)[k + 1].n =
                SumOver(RecordsOf(owner),
                    LAMBDA r : r.Power * Cardinality({e \in DOMAIN teams[k].Characters :
                                   EqualIgnoringCase(r.ID, teams[k].Characters[e])}))

(* C6, amended: only the record's itemID is lower-cased.  For any casing   *)
(* of the itemID, a record is counted for a member entry exactly when the  *)
(* memberID is written in lower case and the two are equal ignoring case   *)
(* ("Thor" counts for "thor"; nothing counts for a memberID "Thor"), and   *)
(* never on a mere substring match.                                        *)
C6_CaseInsensitiveItemID ==
    Done =>
        \A owner \in Owners : \A k \in 1..Len(teams) :
            HasRow(owner) /\
            RowOf(owner)[k + 1].n =
                SumOver(RecordsOf(owner),
                    LAMBDA r : r.Power * Cardinality({e \in DOMAIN teams[k].Characters :
                                   /\ \A c \in Range(teams[k].Characters[e]) : c \notin Range(Upper)
                                   /\ EqualIgnoringCase(r.ID, teams[k].Characters[e])}))

\* A finished report in which an owner holding only "Thor" is counted for
\* the team listing "thor", not for the team listing "Thor", and an owner
\* holding only "tho" is not counted for the team listing "thor".
C6_Witness ==
    /\ Done
    /\ teams = <<TeamPoolSeq[1], TeamPoolSeq[3]>>
    /\ \E owner \in Owners :
          /\ \A i \in DOMAIN RecordsOf(owner) : RecordsOf(owner)[i].ID = Thor
          /\ RowOf(owner)[2].n > 0
          /\ RowOf(owner)[3].n = 0
    /\ \E owner \in Owners :
          /\ \A i \in DOMAIN RecordsOf(owner) : RecordsOf(owner)[i].ID = tho
          /\ RowOf(owner)[2].n = 0

----------------------------------------------------------------------------
(* C4: in the final table the trailing averages of adjacent owner rows     *)
(* never increase.                                                         *)
C4_DescendingAverage ==
    Done =>
        \A i \in 2..(Len(cellValues) - 1) :
            /\ Trailing(i).kind = "int"
            /\ Trailing(i + 1).kind = "int"
            /\ Trailing(i).n >= Trailing(i + 1).n

\* A finished report of seven owners, sorted by the older sort.Sort (its
\* gap-6 pass compares rows), whose rows were not in descending order of
\* average when they were filled.
C4_Witness ==
    /\ Done
    /\ goSort = "quickSort"
    /\ Len(playerKeys) = 7
    /\ \E i, j \in DOMAIN playerKeys :
          i < j /\ AverageOf(playerKeys[i]) < AverageOf(playerKeys[j])

----------------------------------------------------------------------------
(* C5: the table handed to the publisher has the header as its first row,  *)
(* although the sort is applied to the whole matrix.                       *)
C5_HeaderFirst ==
    pc \in {"range", "done"} =>
        /\ Len(cellValues[1]) = Len(teams) + 2
        /\ cellValues[1][1] = StrCell(<<"P", "l", "a", "y", "e", "r">>)
        /\ \A k \in 1..Len(teams) : cellValues[1][k + 1] = StrCell(teams[k].Label)
        /\ cellValues[1][Len(teams) + 2] = StrCell(<<"A", "v", "e", "r", "a", "g", "e">>)
        /\ \A i \in 2..Len(cellValues) : cellValues[i][1].s \in Owners

\* A finished report of seven owners with different averages, under either
\* sort.Sort.
C5_Witness ==
    /\ Done
    /\ Len(cellValues) = 8
    /\ Len(teams) = 2
    /\ \E i, j \in 2..8 : Trailing(i).n # Trailing(j).n

----------------------------------------------------------------------------
(* C9, as stated: a row whose trailing value is not an integer is placed   *)
(* after every row whose trailing value is an integer.                     *)
C9_NonIntegerRowLast ==
    Done =>
        \A i, j \in DOMAIN cellValues :
            Trailing(i).kind # "int" /\ Trailing(j).kind = "int" => i > j

(* C9, amended: Less reports a row whose trailing value is not an integer  *)
(* as less than any row whose trailing value is an integer, and never the  *)
(* reverse; sort.Sort puts the rows that are less first, so such a row     *)
(* (the header is the only one) is placed before every row with an         *)
(* integer trailing value.                                                 *)
C9_NonIntegerRowFirst ==
    pc \in {"range", "done"} =>
        \A i, j \in DOMAIN cellValues :
            Trailing(i).kind # "int" /\ Trailing(j).kind = "int"
                => /\ i < j
                   /\ Less(cellValues[i], cellValues[j])
                   /\ ~Less(cellValues[j], cellValues[i])

\* A sorted matrix of eight rows: one row without and seven with an integer
\* trailing value.
C9_Witness ==
    /\ pc = "range"
    /\ Len(cellValues) = 8
    /\ Cardinality({i \in DOMAIN cellValues : Trailing(i).kind # "int"}) = 1
    /\ Cardinality({i \in DOMAIN cellValues : Trailing(i).kind = "int"}) = 7

----------------------------------------------------------------------------
(* C10: the owner rows are filled in ascending order of ownerID, and in    *)
(* the final table two owner rows with the same average keep that order.   *)
C10_TiesKeepOwnerOrder ==
    /\ pc = "sort" =>
          \A i, j \in 2..Len(cellValues) :
              i < j => StringLess(cellValues[i][1].s, cellValues[j][1].s)
    /\ Done =>
          \A i, j \in 2..Len(cellValues) :
              i < j /\ Trailing(i).n = Trailing(j).n
                  => StringLess(cellValues[i][1].s, cellValues[j][1].s)

\* The first half of C10 alone, which holds: the rows are filled in
\* ascending order of ownerID.
C10_FilledAscending ==
    pc = "sort" =>
        \A i, j \in 2..Len(cellValues) :
            i < j => StringLess(cellValues[i][1].s, cellValues[j][1].s)

----------------------------------------------------------------------------
(* C8: two runs on the same records and the same team list return the same *)
(* table and the same range, in whatever order the maps are ranged over:   *)
(* every run returns what the run that ranges over the maps in first-seen  *)
(* order returns.                                                          *)
FirstSeenTable ==
    LET m == GroupByPlayer(msfPlayerCharacters)
        keys == SortStrings(FirstSeen(msfPlayerCharacters))
        totals(player) == [k \in 1..Len(teams) |-> TeamTotalPower(teams[k].Characters, m[player])]
        row(player) ==
            <<StrCell(player)>>
                \o [k \in 1..Len(teams) |-> IntCell(totals(player)[k])]
                \o <<IntCell(AverageTotalTeamPower(totals(player)))>>
    IN  GoSort(<<HeaderRow(teams)>> \o [i \in 1..Len(keys) |-> row(keys[i])],
               "ByAverageTotalTeamPower", goSort)

C8_SameResultInAnyMapOrder ==
    Done =>
        /\ cellValues = FirstSeenTable
        /\ writeRange = FormatRange(sheetName, FirstSeenTable)

\* A finished report of at least four owners, first seen in an order that
\* is not the ascending one, two of them with the same average.
C8_Witness ==
    /\ Done
    /\ Cardinality(Owners) >= 4
    /\ FirstSeen(msfPlayerCharacters) # playerKeys
    /\ \E i, j \in 2..Len(cellValues) : i # j /\ Trailing(i).n = Trailing(j).n

----------------------------------------------------------------------------
(* C7: for a column count teamCount + 2 of at most 26 the returned range   *)
(* is sheetName, "!A1:", the letter of the column count (A = 1 ... Z = 26) *)
(* and the decimal row count ownerCount + 1; "Offense" with 5 teams and 4  *)
(* owners gives "Offense!A1:G5".                                           *)
C7_RangeAddress ==
    Done /\ Len(teams) + 2 <= 26 =>
        LET rows == Cardinality(Owners) + 1
            letter == Upper[Len(teams) + 2]
            decimal == IF rows < 10 THEN <<Digits[rows + 1]>>
                       ELSE <<Digits[(rows \div 10) + 1], Digits[(rows % 10) + 1]>>
        IN  /\ rows < 100
            /\ writeRange = sheetName \o <<"!", "A", "1", ":", letter>> \o decimal
            /\ (sheetName = Offense /\ Len(teams) = 5 /\ rows = 5)
                  => writeRange = <<"O", "f", "f", "e", "n", "s", "e", "!", "A", "1", ":", "G", "5">>

\* The report of "Offense" with 5 teams and 4 owners is finished, with its
\* range.
C7_Witness ==
    /\ Done
    /\ sheetName = Offense
    /\ Len(teams) = 5
    /\ Cardinality(Owners) = 4
    /\ Len(writeRange) = 13

\* A report of 26 columns and a two-digit row count is finished.
C7_WitnessWidest ==
    /\ Done
    /\ Len(teams) = 24
    /\ Cardinality(Owners) >= 9
    /\ writeRange[Len(writeRange) - 2] = "Z"

====
